---------------------------- MODULE Spec2Model ----------------------------
(***************************************************************************)
(* A model of FeatureBinCollection (src/Binning_routine.py): a flat array  *)
(* of 37449 bins in six levels, the bin-index calculator, the resizer      *)
(* that widens the geometry 8x, insertion, and the range query.            *)
(*                                                                         *)
(* Coordinates reach 2^41, beyond the integers TLC computes with, so a     *)
(* coordinate (a Python int) is kept as a pair <<hi, lo>> that stands for  *)
(* hi * 2^20 + lo with 0 <= lo < 2^20 (hi < 0 for a negative number).      *)
(* The float arithmetic of the source (oL + begin/sL with sL a power of    *)
(* two) is exact for every value below 2^53, so floor and ceil of those    *)
(* quotients are computed here exactly.                                    *)
(***************************************************************************)
EXTENDS Integers, Sequences, FiniteSets, TLC

VARIABLES
    bins,            \* _bins: bin id -> list of records (empty bins left out)
    max_bin_power,   \* _max_bin_power
    dynamic_size,    \* _dynamic_size
    sorted,          \* _sorted
    length,          \* the constructor's length argument
    beginindex,      \* _beginindex: where a stored tuple keeps its begin
    inserted,        \* every record an insert call has appended, in call order
    resizes,         \* how many times _increase_bin_sizes has set a new power
    pending,         \* the insert call that is inside the resizer, and how far it is
    last             \* the last call: its operation, arguments and outcome

vars ==
    <<bins, max_bin_power, dynamic_size, sorted, length, beginindex, inserted, resizes,
      pending, last>>

-----------------------------------------------------------------------------
(* Python integers of any size, as pairs <<hi, lo>>.                        *)

Base == 2^20

Big(n) == <<n \div Base, n % Base>>

\* 2^n for 0 <= n <= 50
Pow2(n) == IF n >= 20 THEN <<2^(n - 20), 0>> ELSE <<0, 2^n>>

Add(x, y) == LET s == x[2] + y[2] IN <<x[1] + y[1] + (s \div Base), s % Base>>

Sub(x, y) == LET d == x[2] - y[2] IN <<x[1] - y[1] + (d \div Base), d % Base>>

Lt(x, y) == x[1] < y[1] \/ (x[1] = y[1] /\ x[2] < y[2])

Leq(x, y) == x = y \/ Lt(x, y)

Zero == Big(0)

One == Big(1)

Max(x, y) == IF Lt(x, y) THEN y ELSE x

\* floor(x / 2^w) for x >= 0 and 8 <= w <= 41
FloorDiv(x, w) ==
    IF w >= 20
    THEN Big(x[1] \div 2^(w - 20))
    ELSE <<x[1] \div 2^w, (x[1] % 2^w) * 2^(20 - w) + (x[2] \div 2^w)>>

\* whether 2^w divides x
Divides(w, x) ==
    IF w >= 20
    THEN x[2] = 0 /\ x[1] % 2^(w - 20) = 0
    ELSE x[2] % 2^w = 0

\* ceil(x / 2^w) for x >= 0
CeilDiv(x, w) == IF Divides(w, x) THEN FloorDiv(x, w) ELSE Add(FloorDiv(x, w), One)

\* a small Python int as a TLC integer
Small(x) == x[1] * Base + x[2]

IsSmall(x) == x[1] \in -1..1

-----------------------------------------------------------------------------
(* The geometry.                                                            *)

bin_level_count == 6

BinCount == 37449

MinPower == 23

MaxPower == 41

default_powers == <<23, 26, 29, 32, 35, 38, 41>>

\* the value of max_bin_power in an object whose constructor took neither branch
\* of lines 222-233: _set_max_bin_power was never called and the attribute is absent
NoPower == 0

\* oL: the first identifier of level L, (8^L - 1) / 7
Offset(L) == (2^(3 * L) - 1) \div 7

\* _max_sequence_length = _size_list[-1] = 2^max_bin_power
max_sequence_length(p) == Pow2(p)


\* sL = 2^(max_bin_power - 3L), given as its exponent
SizePower(p, L) == p - 3 * L

\* n * 2^w for a small n >= 0
Shl(n, w) ==
    IF w >= 20
    THEN <<n * 2^(w - 20), 0>>
    ELSE <<n \div 2^(20 - w), (n % 2^(20 - w)) * 2^w>>

-----------------------------------------------------------------------------
(* The bin store: _bins is a list of 37449 lists.  The model keeps the     *)
(* non-empty ones, as a function from their identifiers.                    *)

EmptyBins == [k \in {} |-> <<>>]

\* _bins[k]; a negative k counts from the end of the list, as Python's does
Wrap(k) == IF k < 0 THEN k + BinCount ELSE k

BinAt(b, k) == IF Wrap(k) \in DOMAIN b THEN b[Wrap(k)] ELSE <<>>

\* _bins[k] = s
SetBin(b, k, s) ==
    IF s = <<>>
    THEN [j \in DOMAIN b \ {k} |-> b[j]]
    ELSE [j \in DOMAIN b \cup {k} |-> IF j = k THEN s ELSE b[j]]

MinOf(S) == CHOOSE x \in S : \A y \in S : x <= y

MaxOf(S) == CHOOSE x \in S : \A y \in S : x >= y

Range(s) == {s[i] : i \in DOMAIN s}

\* every record of every bin, in identifier order
RECURSIVE AllRecords(_, _)
AllRecords(b, ks) ==
    IF ks = {} THEN <<>>
    ELSE LET k == MinOf(ks) IN b[k] \o AllRecords(b, ks \ {k})

\* __len__: sum(len(bin) for bin in self._bins)
Len_(b) == Len(AllRecords(b, DOMAIN b))

-----------------------------------------------------------------------------
(* _increase_bin_sizes                                                      *)

\* line 266: k_new = int(floor(new_oL + bin_begin_old / new_size))
MergeTarget(k, oldsizepower) ==
    LET level == 5
        oL == Offset(level)
        new_level == 4
        new_oL == Offset(new_level)
        bin_begin_old == Shl(k - oL, oldsizepower - 3 * level)
    IN  new_oL + Small(FloorDiv(bin_begin_old, oldsizepower - 3 * new_level))

\* a resizer that assigns where line 268 extends: _bins[k_new] = _bins[k]
RECURSIVE MergeLowestLevel_Assign(_, _, _)
MergeLowestLevel_Assign(b, ks, oldsizepower) ==
    IF ks = {} THEN b
    ELSE LET k == MinOf(ks)
             k_new == MergeTarget(k, oldsizepower)
             assigned == SetBin(b, k_new, BinAt(b, k))
         IN  MergeLowestLevel_Assign(SetBin(assigned, k, <<>>), ks \ {k}, oldsizepower)

\* lines 264-269, for k in range(4681, 37449): an empty bin k changes nothing
\* (extend by nothing, then cleared), so the walk visits the non-empty ones,
\* in the same ascending order.
RECURSIVE MergeLowestLevel(_, _, _)
MergeLowestLevel(b, ks, oldsizepower) ==
    IF ks = {} THEN b
    ELSE LET k == MinOf(ks)
             k_new == MergeTarget(k, oldsizepower)
             extended == SetBin(b, k_new, BinAt(b, k_new) \o BinAt(b, k))
         IN  MergeLowestLevel(SetBin(extended, k, <<>>), ks \ {k}, oldsizepower)

\* a level computed one too low where 7k + 1 is an exact power of 8, as a
\* logarithm that falls short of the integer would give
LevelOf_Inexact(k) ==
    LET L == MaxOf({M \in 0..(bin_level_count - 1) : 2^(3 * M) <= 7 * k + 1})
    IN  IF L > 0 /\ 2^(3 * L) = 7 * k + 1 THEN L - 1 ELSE L

\* line 274: level = int(floor(log(7k + 1, 2) / 3.0)); for every k in 0..4680 the
\* float result is the exact floor of log8(7k + 1)
LevelOf(k) == MaxOf({L \in 0..(bin_level_count - 1) : 2^(3 * L) <= 7 * k + 1})

\* a resizer that forgets the old offset in line 279: new_index = k + new_oL
NewIndex_NoOffset(k) == k + Offset(LevelOf(k) + 1)

\* lines 275-279
NewIndex(k) ==
    LET level == LevelOf(k)
        new_level == level + 1
        oL == Offset(level)
        new_oL == Offset(new_level)
    IN  k - oL + new_oL

\* lines 272-281, for k from 4680 down to 0:
\*     _bins[new_index] = _bins[k];  _bins[k] = []
\* A step whose source and destination are both empty changes nothing.  The
\* destination of k is k + 8^level with level in 0..4, so the walk visits, in the
\* same descending order, every non-empty k and every k that is 8^j below a
\* non-empty bin: a superset of the steps that change something.
ShiftSteps(b) ==
    {k \in (DOMAIN b) \cup {d - 2^(3 * j) : d \in DOMAIN b, j \in 0..4} :
        k \in 0..(Offset(5) - 1)}

RECURSIVE MoveDown(_, _)
MoveDown(b, ks) ==
    IF ks = {} THEN b
    ELSE LET k == MaxOf(ks)
             moved == SetBin(b, NewIndex(k), BinAt(b, k))
         IN  MoveDown(SetBin(moved, k, <<>>), ks \ {k})

\* a resizer without its first loop (lines 264-269): the finest level is not merged
\* up before everything moves down
increase_bin_sizes_NoMerge(b, oldsizepower) == MoveDown(b, ShiftSteps(b))

\* the bins after one call that passed its assertion, from power oldsizepower
increase_bin_sizes(b, oldsizepower) ==
    LET merged == MergeLowestLevel(b, {k \in DOMAIN b : k >= Offset(5)}, oldsizepower)
    IN  MoveDown(merged, ShiftSteps(merged))

-----------------------------------------------------------------------------
(* _calculate_bin_index                                                     *)

NoBin == -1

\* a level scan without the block test of line 450 (k1 < group_length)
RECURSIVE LevelScan_NoBlockTest(_, _, _, _)
LevelScan_NoBlockTest(begin, end, p, L) ==
    IF L < 0 THEN NoBin
    ELSE LET oL == Offset(L)
             k1 == Add(Big(oL), FloorDiv(begin, SizePower(p, L)))
             k2 == Add(Big(oL - 1), CeilDiv(end, SizePower(p, L)))
         IN  IF k1 = k2 /\ IsSmall(k1)
             THEN Small(k1)
             ELSE LevelScan_NoBlockTest(begin, end, p, L - 1)

\* a level scan that takes the end as the last position held: k2 from the floor
\* of end / sL where line 449 takes the ceiling, less one
RECURSIVE LevelScan_InclusiveEnd(_, _, _, _)
LevelScan_InclusiveEnd(begin, end, p, L) ==
    IF L < 0 THEN NoBin
    ELSE LET oL == Offset(L)
             group_length == Offset(L + 1)
             k1 == Add(Big(oL), FloorDiv(begin, SizePower(p, L)))
             k2 == Add(Big(oL), FloorDiv(end, SizePower(p, L)))
         IN  IF k1 = k2 /\ Lt(k1, Big(group_length))
             THEN Small(k1)
             ELSE LevelScan_InclusiveEnd(begin, end, p, L - 1)

\* lines 434-451: the level scan, L = 5 down to 0; NoBin when no level fits
RECURSIVE LevelScan(_, _, _, _)
LevelScan(begin, end, p, L) ==
    IF L < 0 THEN NoBin
    ELSE LET oL == Offset(L)
             group_length == Offset(L + 1)
             k1 == Add(Big(oL), FloorDiv(begin, SizePower(p, L)))
             k2 == Add(Big(oL - 1), CeilDiv(end, SizePower(p, L)))
         IN  IF k1 = k2 /\ Lt(k1, Big(group_length))
             THEN Small(k1)
             ELSE LevelScan(begin, end, p, L - 1)

\* a resizer that raises the power by 6 where line 252 raises it by 3
RECURSIVE AssignLoop_Plus6(_, _, _, _, _)
AssignLoop_Plus6(begin, end, b, p, n) ==
    LET k == LevelScan(begin, end, p, bin_level_count - 1)
    IN  IF k # NoBin
        THEN [status |-> "ok", bin |-> k, bins |-> b, power |-> p, resizes |-> n]
        ELSE IF p + 6 > MaxPower
        THEN [status |-> "AssertionError", bin |-> NoBin, bins |-> b, power |-> p,
              resizes |-> n]
        ELSE AssignLoop_Plus6(begin, end, increase_bin_sizes(b, p), p + 6, n + 1)

\* a resizer whose assertion reads newsizepower < 41 where line 253 has <= 41
RECURSIVE AssignLoop_StrictCap(_, _, _, _, _)
AssignLoop_StrictCap(begin, end, b, p, n) ==
    LET k == LevelScan(begin, end, p, bin_level_count - 1)
    IN  IF k # NoBin
        THEN [status |-> "ok", bin |-> k, bins |-> b, power |-> p, resizes |-> n]
        ELSE IF p + 3 >= MaxPower
        THEN [status |-> "AssertionError", bin |-> NoBin, bins |-> b, power |-> p,
              resizes |-> n]
        ELSE AssignLoop_StrictCap(begin, end, increase_bin_sizes(b, p), p + 3, n + 1)

\* lines 431-455: while True: scan; _increase_bin_sizes().  The resizer's
\* assertion (line 253) fails before it changes anything.  Line 433 reads
\* _max_bin_power, which raises AttributeError in an object that never set it.
RECURSIVE AssignLoop(_, _, _, _, _)
AssignLoop(begin, end, b, p, n) ==
    LET k == LevelScan(begin, end, p, bin_level_count - 1)
    IN  IF p = NoPower
        THEN [status |-> "AttributeError", bin |-> NoBin, bins |-> b, power |-> p,
              resizes |-> n]
        ELSE IF k # NoBin
        THEN [status |-> "ok", bin |-> k, bins |-> b, power |-> p, resizes |-> n]
        ELSE IF p + 3 > MaxPower
        THEN [status |-> "AssertionError", bin |-> NoBin, bins |-> b, power |-> p,
              resizes |-> n]
        ELSE AssignLoop(begin, end, increase_bin_sizes(b, p), p + 3, n + 1)

\* a calculator without the fixed-mode limit of lines 425-428
calculate_bin_index_NoLimit(begin, span0, b, p, dyn) ==
    LET span == Max(One, span0)
        unchanged(st) == [status |-> st, bin |-> NoBin, bins |-> b, power |-> p,
                          resizes |-> 0]
    IN  IF Lt(span0, Zero) THEN unchanged("AssertionError")
        ELSE IF Lt(begin, Zero) THEN unchanged("AssertionError")
        ELSE IF dyn /\ ~Leq(Add(begin, span), Pow2(MaxPower))
        THEN unchanged("AssertionError")
        ELSE AssignLoop(begin, Add(begin, span), b, p, 0)

\* a calculator without the dynamic-mode cap of line 424: the resizer's own
\* assertion stops the loop, after the resizes before it
calculate_bin_index_NoCap(begin, span0, b, p, dyn) ==
    LET span == Max(One, span0)
        unchanged(st) == [status |-> st, bin |-> NoBin, bins |-> b, power |-> p,
                          resizes |-> 0]
    IN  IF Lt(span0, Zero) THEN unchanged("AssertionError")
        ELSE IF Lt(begin, Zero) THEN unchanged("AssertionError")
        ELSE IF ~dyn /\ Lt(Pow2(p), Add(begin, span)) THEN unchanged("ValueError")
        ELSE AssignLoop(begin, Add(begin, span), b, p, 0)

\* lines 416-455, from bins b at power p
calculate_bin_index(begin, span0, b, p, dyn) ==
    LET span == Max(One, span0)
        unchanged(st) == [status |-> st, bin |-> NoBin, bins |-> b, power |-> p,
                          resizes |-> 0]
    IN  IF Lt(span0, Zero) THEN unchanged("AssertionError")
        ELSE IF Lt(begin, Zero) THEN unchanged("AssertionError")
        ELSE IF dyn /\ ~Leq(Add(begin, span), Pow2(MaxPower))
        THEN unchanged("AssertionError")
        ELSE IF ~dyn /\ Lt(Pow2(p), Add(begin, span)) THEN unchanged("ValueError")
        ELSE AssignLoop(begin, Add(begin, span), b, p, 0)

-----------------------------------------------------------------------------
(* sort: every bin sorted as Python sorts tuples, by begin and then end     *)

RecLt(f, g) == Lt(f[1], g[1]) \/ (f[1] = g[1] /\ Lt(f[2], g[2]))

RECURSIVE InsertSorted(_, _)
InsertSorted(f, s) ==
    IF s = <<>> THEN <<f>>
    ELSE IF RecLt(f, Head(s)) THEN <<f>> \o s
    ELSE <<Head(s)>> \o InsertSorted(f, Tail(s))

RECURSIVE SortedList(_)
SortedList(s) == IF s = <<>> THEN <<>> ELSE InsertSorted(Head(s), SortedList(Tail(s)))

\* lines 320-322 (beginindex == 0)
sort(b) == [k \in DOMAIN b |-> SortedList(b[k])]

-----------------------------------------------------------------------------
(* __getitem__                                                              *)

None == <<>>

IntKey(n) == [kind |-> "int", start |-> n, stop |-> None, step |-> None]

Slice(a, z, st) == [kind |-> "slice", start |-> a, stop |-> z, step |-> st]

OtherKey == [kind |-> "other", start |-> None, stop |-> None, step |-> None]

\* lines 385-392: the three tests a record of a boundary bin is put to
Matches(feature, start, stop) ==
    \/ Leq(start, feature[1]) /\ Lt(feature[1], stop)
    \/ Lt(start, feature[2]) /\ Leq(feature[2], stop)
    \/ Leq(feature[1], start) /\ Leq(stop, feature[2])

\* lines 383-394: one boundary bin, read in list order up to the break
RECURSIVE ScanBin(_, _, _, _)
ScanBin(s, i, start, stop) ==
    IF i > Len(s) THEN <<>>
    ELSE LET feature == s[i]
             hit == IF Matches(feature, start, stop) THEN <<feature>> ELSE <<>>
         IN  IF Lt(stop, feature[1]) THEN hit
             ELSE hit \o ScanBin(s, i + 1, start, stop)

\* lines 379-380: the bins k1+1 .. k2-2, extended into the result unfiltered, in
\* identifier order (the empty ones add nothing)
Interior(b, lo, hi) == AllRecords(b, {k \in DOMAIN b : lo <= k /\ k <= hi})

\* lines 372-377: k1 and k2 of level L
QueryK1(start, p, L) == Add(Big(Offset(L)), FloorDiv(start, SizePower(p, L)))

QueryK2(stop, p, L) == Add(Add(Big(Offset(L) - 1), CeilDiv(stop, SizePower(p, L))), One)

\* one level raises IndexError when it reads a bin that is not in the list
LevelFails(start, stop, p, L) ==
    ~Lt(QueryK1(start, p, L), Big(BinCount))

\* lines 378-394 for level L
LevelEntries(b, start, stop, p, L) ==
    LET k1 == Small(QueryK1(start, p, L))
        k2 == Small(QueryK2(stop, p, L))
        inner == IF k2 - k1 > 2 THEN Interior(b, k1 + 1, k2 - 2) ELSE <<>>
        first == ScanBin(BinAt(b, k1), 1, start, stop)
        second == IF k2 - 1 = k1 THEN <<>> ELSE ScanBin(BinAt(b, k2 - 1), 1, start, stop)
    IN  inner \o first \o second

\* lines 371-395, L = 5 down to 0
RECURSIVE Collect(_, _, _, _, _)
Collect(b, start, stop, p, L) ==
    IF L < 0 THEN <<>>
    ELSE LevelEntries(b, start, stop, p, L) \o Collect(b, start, stop, p, L - 1)

\* a getter that sorts (lines 363-364) before it looks at the key
getitem_SortFirst(key, b, p, isSorted, bi) ==
    LET asSlice == IF key.kind = "int"
                   THEN Slice(key.start, Add(key.start, One), None)
                   ELSE key
        stop1 == IF asSlice.stop = None THEN max_sequence_length(p) ELSE asSlice.stop
        start == IF asSlice.start = None THEN Zero ELSE asSlice.start
        stop == IF Leq(max_sequence_length(p), stop1)
                THEN Sub(max_sequence_length(p), One)
                ELSE stop1
        presorted == IF isSorted THEN b ELSE sort(b)
        rejected(st) == [status |-> st, result |-> <<>>, bins |-> presorted,
                         sorted |-> TRUE]
    IN  IF asSlice.kind # "slice" THEN rejected("TypeError")
        ELSE IF asSlice.step # None /\ asSlice.step # One THEN rejected("KeyError")
        ELSE IF Lt(start, Zero) THEN rejected("IndexError")
        ELSE IF Lt(stop1, start) THEN rejected("IndexError")
        ELSE IF \E L \in 0..(bin_level_count - 1) : LevelFails(start, stop, p, L)
        THEN rejected("IndexError")
        ELSE [status |-> "ok",
              result |-> SortedList(Collect(presorted, start, stop, p, bin_level_count - 1)),
              bins |-> presorted, sorted |-> TRUE]

\* the whole getter on bins b at power p, with _beginindex bi.  The returned list's
\* order follows the iteration order of a set (line 381); the result is kept as a
\* multiset, written as its sorted list.  Lines 350 and 359 read
\* _max_sequence_length, absent from an object that never set its power; sort()
\* (line 364) reads self.bins, an attribute no object has, when bi is not 0
\* (line 326), before it sorts anything.
getitem(key, b, p, isSorted, bi) ==
    LET asSlice == IF key.kind = "int"
                   THEN Slice(key.start, Add(key.start, One), None)
                   ELSE key
        stop1 == IF asSlice.stop = None THEN max_sequence_length(p) ELSE asSlice.stop
        start == IF asSlice.start = None THEN Zero ELSE asSlice.start
        stop == IF Leq(max_sequence_length(p), stop1)
                THEN Sub(max_sequence_length(p), One)
                ELSE stop1
        presorted == IF isSorted THEN b ELSE sort(b)
        rejected(st) == [status |-> st, result |-> <<>>, bins |-> b, sorted |-> isSorted]
    IN  IF asSlice.kind # "slice" THEN rejected("TypeError")
        ELSE IF asSlice.step # None /\ asSlice.step # One THEN rejected("KeyError")
        ELSE IF p = NoPower /\ asSlice.stop = None THEN rejected("AttributeError")
        ELSE IF Lt(start, Zero) THEN rejected("IndexError")
        ELSE IF Lt(stop1, start) THEN rejected("IndexError")
        ELSE IF p = NoPower THEN rejected("AttributeError")
        ELSE IF ~isSorted /\ bi # 0 THEN rejected("AttributeError")
        ELSE IF \E L \in 0..(bin_level_count - 1) : LevelFails(start, stop, p, L)
        THEN [status |-> "IndexError", result |-> <<>>, bins |-> presorted,
              sorted |-> TRUE]
        ELSE [status |-> "ok",
              result |-> SortedList(Collect(presorted, start, stop, p, bin_level_count - 1)),
              bins |-> presorted, sorted |-> TRUE]

-----------------------------------------------------------------------------
(* insert                                                                   *)

\* lines 298-312 on bins b at power p
insert(feature, b, p, dyn) ==
    LET begin == feature[1]
        end == feature[2]
        span == Sub(end, begin)
        found == calculate_bin_index(begin, span, b, p, dyn)
    IN  IF Lt(end, begin)
        THEN [status |-> "AssertionError", bin |-> NoBin, bins |-> b, power |-> p,
              resizes |-> 0]
        ELSE IF found.status # "ok" THEN found
        ELSE [found EXCEPT !.bins = SetBin(found.bins, found.bin,
                                           Append(BinAt(found.bins, found.bin), feature))]

-----------------------------------------------------------------------------
(* __init__                                                                 *)

\* lines 228-233: the first of default_powers with length <= 2^power, 0 when none
RECURSIVE FirstPower(_, _)
FirstPower(len, i) ==
    IF i > Len(default_powers) THEN 0
    ELSE IF Leq(len, Pow2(default_powers[i])) THEN default_powers[i]
    ELSE FirstPower(len, i + 1)

-----------------------------------------------------------------------------
(* The calls made on the index.                                             *)

MaxInserts == 2

RecordInputs ==
    { <<Zero, Big(256)>>,                    \* the leftmost finest bin
      <<One, Big(257)>>,                     \* crosses a finest-level boundary
      <<Big(256), Big(256)>>,                \* zero length, on a bin boundary
      <<Zero, Pow2(23)>>,                    \* fills the starting maximum
      <<Zero, Sub(Pow2(23), One)>>,
      <<Sub(Pow2(23), One), Pow2(23)>>,      \* ends at the starting maximum
      <<One, Pow2(23)>>,                     \* ends at the starting maximum too
      <<Pow2(26), Pow2(26)>>,                \* zero length, at 2^26
      <<Zero, Add(Pow2(26), One)>>,
      <<One, Pow2(41)>>,                     \* six resizes
      <<Zero, Add(Pow2(41), One)>>,          \* past the cap
      <<Big(-1), Big(56)>>,                  \* negative begin
      <<Big(5), Big(3)>> }                   \* begin > end

KeyInputs ==
    { Slice(Zero, Zero, None),
      Slice(None, None, None),
      Slice(Zero, Big(1000), None),
      Slice(Big(255), Big(256), None),
      Slice(Big(1800), None, One),
      IntKey(Sub(Pow2(23), One)),
      IntKey(Add(Pow2(23), One)),
      IntKey(Big(-1)),
      Slice(Big(5), Big(3), None),
      Slice(Zero, Big(25), Big(2)),
      OtherKey }

\* (begin, span) pairs handed to _calculate_bin_index directly
BinForInputs ==
    { <<Zero, Pow2(23)>>, <<One, Pow2(23)>>, <<Big(256), Zero>>,
      <<Big(8388352), Big(256)>>, <<Pow2(23), Big(2047)>> }

LengthInputs == { None, Big(1), Pow2(26) }

Idle == [op |-> "init", arg |-> <<>>, status |-> "ok", bin |-> NoBin, result |-> <<>>]

\* no call is inside the resizer
NoCall == [phase |-> "idle", feature |-> <<>>]

Init ==
    /\ length \in LengthInputs
    /\ beginindex = 0
    /\ bins = EmptyBins
    /\ sorted = FALSE
    /\ dynamic_size = (length = None)
    /\ max_bin_power = IF length = None THEN MinPower ELSE FirstPower(length, 1)
    /\ inserted = <<>>
    /\ resizes = 0
    /\ pending = NoCall
    /\ last = Idle

\* one call of insert
Store(feature) ==
    \E done \in {insert(feature, bins, max_bin_power, dynamic_size)} :
        /\ sorted' = FALSE
        /\ bins' = done.bins
        /\ max_bin_power' = done.power
        /\ resizes' = resizes + done.resizes
        /\ inserted' = IF done.status = "ok"
                       THEN SortedList(Append(inserted, feature))
                       ELSE inserted
        /\ last' = [op |-> "insert", arg |-> feature, status |-> done.status,
                    bin |-> done.bin, result |-> <<>>]
        /\ UNCHANGED <<dynamic_size, length, beginindex, pending>>

Insert(feature) ==
    /\ Len(inserted) < MaxInserts
    /\ Store(feature)

BinFor(begin, span) ==
    \E done \in {calculate_bin_index(begin, span, bins, max_bin_power, dynamic_size)} :
        /\ bins' = done.bins
        /\ max_bin_power' = done.power
        /\ resizes' = resizes + done.resizes
        /\ last' = [op |-> "bin_for", arg |-> <<begin, span>>, status |-> done.status,
                    bin |-> done.bin, result |-> <<>>]
        /\ UNCHANGED <<sorted, dynamic_size, length, beginindex, inserted, pending>>

Query(key) ==
    \E done \in {getitem(key, bins, max_bin_power, sorted, beginindex)} :
        /\ bins' = done.bins
        /\ sorted' = done.sorted
        /\ last' = [op |-> "query", arg |-> key, status |-> done.status,
                    bin |-> NoBin, result |-> done.result]
        /\ UNCHANGED <<max_bin_power, dynamic_size, length, beginindex, inserted, resizes,
                       pending>>

Length ==
    /\ last' = [op |-> "len", arg |-> <<>>, status |-> "ok", bin |-> NoBin,
                result |-> <<Len_(bins)>>]
    /\ UNCHANGED <<bins, max_bin_power, dynamic_size, sorted, length, beginindex, inserted,
                   resizes, pending>>

Next ==
    \/ \E feature \in RecordInputs : Insert(feature)
    \/ \E call \in BinForInputs : BinFor(call[1], call[2])
    \/ \E key \in KeyInputs : Query(key)
    \/ Length

Spec == Init /\ [][Next]_vars

-----------------------------------------------------------------------------
(* Construction with any arguments: lengths the constructor does not accept *)
(* and a tuple layout other than the default.                               *)

\* a length that is no integer, such as 1.5
NotInteger == <<"1.5">>

\* isinstance(length, integer_types)
IsInteger(len) == Len(len) = 2

\* lines 220-236: the outcome of __init__ and what it set
construct(len) ==
    IF len = None
    THEN [status |-> "ok", power |-> MinPower, dyn |-> TRUE]
    ELSE IF IsInteger(len) /\ Lt(Zero, len)
    THEN IF FirstPower(len, 1) # 0
         THEN [status |-> "ok", power |-> FirstPower(len, 1), dyn |-> FALSE]
         ELSE [status |-> "ValueError", power |-> NoPower, dyn |-> TRUE]
    ELSE [status |-> "ok", power |-> NoPower, dyn |-> TRUE]

ConstructLengths ==
    { None, Pow2(26), Pow2(41), Zero, Big(-1), NotInteger, Add(Pow2(41), One) }

BeginIndexInputs == { 0, 1 }

InitConstruct ==
    /\ length \in ConstructLengths
    /\ beginindex \in BeginIndexInputs
    /\ bins = EmptyBins
    /\ sorted = FALSE
    /\ dynamic_size = construct(length).dyn
    /\ max_bin_power = construct(length).power
    /\ inserted = <<>>
    /\ resizes = 0
    /\ pending = NoCall
    /\ last = [Idle EXCEPT !.status = construct(length).status]

\* a constructor that raised returned no object to call
Constructed == ~(last.op = "init" /\ last.status # "ok")

NextConstruct ==
    \/ \E feature \in RecordInputs : Constructed /\ Insert(feature)
    \/ \E call \in BinForInputs : Constructed /\ BinFor(call[1], call[2])
    \/ \E key \in KeyInputs : Constructed /\ Query(key)
    \/ Constructed /\ Length

SpecConstruct == InitConstruct /\ [][NextConstruct]_vars

-----------------------------------------------------------------------------
(* Three inserts into a fresh dynamic index, with small intervals and       *)
(* intervals that reach or pass the starting maximum 2^23.                  *)

ScenarioInserts == 3

ScenarioRecords ==
    { <<Zero, Big(256)>>,
      <<One, Big(257)>>,
      <<One, Pow2(23)>>,                     \* ends at the starting maximum
      <<One, Add(Pow2(23), One)>> }          \* ends past it

ScenarioKeys ==
    { Slice(Zero, Big(1000), None),
      Slice(Zero, Big(257), None),
      Slice(None, None, None),
      IntKey(Big(300)) }

InitScenario ==
    /\ length = None
    /\ beginindex = 0
    /\ bins = EmptyBins
    /\ sorted = FALSE
    /\ dynamic_size = TRUE
    /\ max_bin_power = MinPower
    /\ inserted = <<>>
    /\ resizes = 0
    /\ pending = NoCall
    /\ last = Idle

ScenarioInsert(feature) ==
    /\ Len(inserted) < ScenarioInserts
    /\ Store(feature)

NextScenario ==
    \/ \E feature \in ScenarioRecords : ScenarioInsert(feature)
    \/ \E key \in ScenarioKeys : Query(key)
    \/ Length

SpecScenario == InitScenario /\ [][NextScenario]_vars

-----------------------------------------------------------------------------
(* An insert that resizes, taken in steps, with queries running between the *)
(* steps as a second thread's would.  The steps are the resizer's own       *)
(* stages: the new power is set (line 254), the finest level is merged up   *)
(* (lines 264-269), everything moves down (lines 272-281), and the          *)
(* calculator scans again and insert appends (lines 431-451, 312).  The     *)
(* loops are taken whole, which leaves out the interleavings inside them.   *)

InterleavedRecords ==
    { <<Big(256), Big(512)>>,
      <<Big(256), Big(256)>>,
      <<One, Add(Pow2(23), One)>>,           \* one resize from power 23
      <<Zero, Add(Pow2(26), One)>> }         \* two resizes from power 23

InterleavedKeys ==
    { Slice(Big(256), Big(512), None),
      Slice(Big(255), Big(256), None),
      Slice(None, None, None) }

Quiet == pending = NoCall

\* the end the calculator works with: begin + max(1, end - begin)
ScanEnd(feature) == Add(feature[1], Max(One, Sub(feature[2], feature[1])))

\* insert(feature) passes the checks of lines 306-308 and 417-424 and its first
\* scan finds no bin
NeedsResize(feature) ==
    /\ Leq(Zero, feature[1])
    /\ Leq(feature[1], feature[2])
    /\ Leq(ScanEnd(feature), Pow2(MaxPower))
    /\ LevelScan(feature[1], ScanEnd(feature), max_bin_power, bin_level_count - 1) = NoBin

\* insert up to line 254 of the resizer: _sorted reset, the new power set
RaisePower(feature) ==
    /\ Quiet
    /\ dynamic_size
    /\ Len(inserted) < MaxInserts
    /\ NeedsResize(feature)
    /\ max_bin_power + 3 <= MaxPower
    /\ sorted' = FALSE
    /\ max_bin_power' = max_bin_power + 3
    /\ resizes' = resizes + 1
    /\ pending' = [phase |-> "raised", feature |-> feature]
    /\ last' = [op |-> "insert", arg |-> feature, status |-> "running", bin |-> NoBin,
                result |-> <<>>]
    /\ UNCHANGED <<bins, dynamic_size, length, beginindex, inserted>>

\* lines 264-269
MergeStep ==
    /\ pending.phase = "raised"
    /\ bins' = MergeLowestLevel(bins, {k \in DOMAIN bins : k >= Offset(5)},
                                max_bin_power - 3)
    /\ pending' = [pending EXCEPT !.phase = "merged"]
    /\ UNCHANGED <<max_bin_power, dynamic_size, sorted, length, beginindex, inserted,
                   resizes, last>>

\* lines 272-281
MoveStep ==
    /\ pending.phase = "merged"
    /\ bins' = MoveDown(bins, ShiftSteps(bins))
    /\ pending' = [pending EXCEPT !.phase = "moved"]
    /\ UNCHANGED <<max_bin_power, dynamic_size, sorted, length, beginindex, inserted,
                   resizes, last>>

\* the next round of the assignment loop: the scan finds a bin and insert appends
\* to it, or it finds none and the resizer sets the next power
FinishInsert ==
    /\ pending.phase = "moved"
    /\ \E k \in {LevelScan(pending.feature[1], ScanEnd(pending.feature), max_bin_power,
                            bin_level_count - 1)} :
          IF k # NoBin
          THEN /\ bins' = SetBin(bins, k, Append(BinAt(bins, k), pending.feature))
               /\ inserted' = SortedList(Append(inserted, pending.feature))
               /\ pending' = NoCall
               /\ last' = [op |-> "insert", arg |-> pending.feature, status |-> "ok",
                           bin |-> k, result |-> <<>>]
               /\ UNCHANGED <<max_bin_power, resizes>>
          ELSE /\ max_bin_power + 3 <= MaxPower
               /\ max_bin_power' = max_bin_power + 3
               /\ resizes' = resizes + 1
               /\ pending' = [pending EXCEPT !.phase = "raised"]
               /\ UNCHANGED <<bins, inserted, last>>
    /\ UNCHANGED <<dynamic_size, sorted, length, beginindex>>

NextInterleaved ==
    \/ \E feature \in InterleavedRecords : Quiet /\ Insert(feature)
    \/ \E feature \in InterleavedRecords : RaisePower(feature)
    \/ MergeStep
    \/ MoveStep
    \/ FinishInsert
    \/ \E key \in InterleavedKeys : Query(key)

SpecInterleaved == InitScenario /\ [][NextInterleaved]_vars

-----------------------------------------------------------------------------
(* What the claims speak of.                                                *)

Powers == Range(default_powers)

\* every record the bins hold
Stored == AllRecords(bins, DOMAIN bins)

Count(s, f) == Cardinality({i \in DOMAIN s : s[i] = f})

\* the range [s, e) a key asks for: a point n is [n, n+1), an absent start is 0,
\* an absent stop is the current maximum coordinate
KeyStart(key) == IF key.start = None THEN Zero ELSE key.start

KeyStop(key, p) ==
    IF key.kind = "int" THEN Add(key.start, One)
    ELSE IF key.stop = None THEN Pow2(p)
    ELSE key.stop

\* the four overlap predicates of a record f and a range [s, e)
Overlaps(f, s, e) ==
    \/ Leq(s, f[1]) /\ Lt(f[1], e)
    \/ Lt(s, f[2]) /\ Leq(f[2], e)
    \/ Leq(f[1], s) /\ Leq(e, f[2])
    \/ Leq(s, f[1]) /\ Leq(f[2], e)

AnsweredQuery == last.op = "query" /\ last.status = "ok"

\* C1: every stored record that overlaps the range of an answered query is in
\* the query's result.
C1_QueryComplete ==
    AnsweredQuery =>
        \A i \in DOMAIN Stored :
            Overlaps(Stored[i], KeyStart(last.arg), KeyStop(last.arg, max_bin_power))
                => Stored[i] \in Range(last.result)

\* C2: every record in the result of an answered query overlaps the query's range.
C2_QuerySound ==
    AnsweredQuery =>
        \A i \in DOMAIN last.result :
            Overlaps(last.result[i], KeyStart(last.arg), KeyStop(last.arg, max_bin_power))

\* C3: the bins hold exactly the records the successful inserts appended, each as
\* often as it was inserted, and length() is the number of successful inserts.
C3_RecordsPreserved ==
    /\ SortedList(Stored) = inserted
    /\ Len_(bins) = Len(inserted)
    /\ last.op = "len" => last.result = <<Len(inserted)>>

C3_Witness ==
    /\ last.op = "len"
    /\ resizes > 0
    /\ Len(inserted) = MaxInserts
    /\ Cardinality(DOMAIN bins) = 1

\* C4: every stored record sits in the bin the bin-index calculator computes for
\* it under the current geometry.
C4_Placement ==
    \A k \in DOMAIN bins :
        \A i \in DOMAIN bins[k] :
            LET f == bins[k][i]
            IN  LevelScan(f[1], Add(f[1], Max(One, Sub(f[2], f[1]))), max_bin_power,
                          bin_level_count - 1) = k

\* a finest-level bin that a resize filled from two bins of the old geometry
C4_Witness ==
    /\ resizes > 0
    /\ last.op # "insert"
    /\ \E k \in DOMAIN bins : k >= Offset(5) /\ Len(bins[k]) = 2

\* C5: no record is in the result of an answered query more often than it was
\* inserted.
C5_NoDuplicates ==
    AnsweredQuery =>
        \A i \in DOMAIN last.result :
            Count(last.result, last.result[i]) <= Count(inserted, last.result[i])

\* the level whose block of identifiers holds k
BlockOf(k) == MaxOf({L \in 0..(bin_level_count - 1) : Offset(L) <= k})

\* the (begin, span) pair of the last insert or bin_for call
CallBegin == last.arg[1]

CallSpan == IF last.op = "insert" THEN Sub(last.arg[2], last.arg[1]) ELSE last.arg[2]

Placed == last.op \in {"insert", "bin_for"} /\ last.status = "ok"

\* the range of bin k of level L at power p holds [begin, end)
BinHolds(k, L, p, begin, end) ==
    /\ Leq(Shl(k - Offset(L), SizePower(p, L)), begin)
    /\ Leq(end, Shl(k - Offset(L) + 1, SizePower(p, L)))

\* C6: the identifier the bin-index calculator returns lies in the block of one
\* level, oL <= k < o(L+1); the range of that bin holds [begin, begin + max(span, 1));
\* and no bin of a finer level holds it.
C6_FinestHoldingBin ==
    Placed =>
        LET k == last.bin
            L == BlockOf(k)
            end == Add(CallBegin, Max(One, CallSpan))
        IN  /\ k \in 0..(BinCount - 1)
            /\ Offset(L) <= k /\ k < Offset(L + 1)
            /\ BinHolds(k, L, max_bin_power, CallBegin, end)
            /\ \A F \in (L + 1)..(bin_level_count - 1) :
                   FloorDiv(CallBegin, SizePower(max_bin_power, F))
                       # FloorDiv(Sub(end, One), SizePower(max_bin_power, F))

\* an interval that starts at the old maximum: under the old geometry its two
\* ends fall in one bin position of level 4 that lies past the level's block
C6_Witness ==
    /\ last.op = "bin_for" /\ last.status = "ok"
    /\ last.arg = <<Pow2(23), Big(2047)>>
    /\ last.bin = Offset(5) + 4096
    /\ max_bin_power = 26

\* C7: max_bin_power is one of 23, 26, ..., 41 in every state, never decreases,
\* and rises by exactly 3 with each resize.
C7_Geometry ==
    /\ max_bin_power \in Powers
    /\ [][/\ max_bin_power' \in Powers
          /\ max_bin_power' >= max_bin_power
          /\ max_bin_power' - max_bin_power = 3 * (resizes' - resizes)]_vars

C7_Witness == max_bin_power = MaxPower /\ resizes = 6 /\ Len(inserted) = MaxInserts

\* C8: in fixed mode max_bin_power is the smallest of the default powers with
\* length <= 2^power, whatever calls were made, and the resizer never ran.
C8_FixedNeverResizes ==
    length # None =>
        /\ ~dynamic_size
        /\ resizes = 0
        /\ max_bin_power \in Powers
        /\ Leq(length, Pow2(max_bin_power))
        /\ \A q \in Powers : q < max_bin_power => ~Leq(length, Pow2(q))

C8_Witness ==
    /\ length = Pow2(26)
    /\ last.op = "insert" /\ last.status = "ValueError"
    /\ Len(inserted) > 0

\* C9: in fixed mode an insert of a record with 0 <= begin <= end fails with the
\* size-limit error when end > 2^max_bin_power, and succeeds when end <= 2^max_bin_power.
C9_FixedSizeLimit ==
    (/\ length # None
     /\ last.op = "insert"
     /\ Leq(Zero, last.arg[1]) /\ Leq(last.arg[1], last.arg[2]))
        => IF Lt(Pow2(max_bin_power), last.arg[2])
           THEN last.status = "ValueError"
           ELSE last.status = "ok"

\* C10: a rejected insert leaves every bin as it was, max_bin_power as it was, and
\* runs no resize.
C10_RejectedInsertAtomic ==
    [][(last'.op = "insert" /\ last'.status # "ok")
          => /\ bins' = bins
             /\ max_bin_power' = max_bin_power
             /\ resizes' = resizes
             /\ inserted' = inserted]_vars

\* a record past the 2^41 cap turned away by a dynamic index that holds records
C10_Witness ==
    /\ last.op = "insert" /\ last.status = "AssertionError"
    /\ last.arg = <<Zero, Add(Pow2(41), One)>>
    /\ dynamic_size
    /\ max_bin_power < MaxPower
    /\ Len(inserted) > 0

\* the arguments of the last insert or bin_for call pass the checks that precede
\* the assignment loop in dynamic mode
Admissible ==
    /\ Leq(Zero, CallBegin)
    /\ Leq(Zero, CallSpan)
    /\ Leq(Add(CallBegin, Max(One, CallSpan)), Pow2(MaxPower))

\* C11: in dynamic mode a call whose arguments satisfy begin >= 0, span >= 0 and
\* begin + max(span, 1) <= 2^41 ends with a bin (the resizer's assertion never
\* fails), and no call runs more than 6 resizes, nor do all calls together.
C11_ResizeLoopTerminates ==
    /\ []((dynamic_size /\ last.op \in {"insert", "bin_for"} /\ Admissible)
             => last.status = "ok")
    /\ [](resizes <= 6)
    /\ [][resizes' - resizes \in 0..6]_vars

\* one insert into a fresh index that runs all six resizes
C11_Witness ==
    /\ last.op = "insert" /\ last.status = "ok"
    /\ last.arg = <<One, Pow2(41)>>
    /\ resizes = 6
    /\ inserted = <<last.arg>>

\* C12: a stored zero-length record (k, k) with 2 <= k < 2^max_bin_power - 1 is in
\* the result of the queries [k-1, k+1), [k-1, k) and [k, k+1), and not in the
\* result of [k-2, k-1), whatever k is.
C12_ZeroLengthRetrieval ==
    AnsweredQuery =>
        \A i \in DOMAIN Stored :
            LET f == Stored[i]
                k == f[1]
                s == KeyStart(last.arg)
                e == KeyStop(last.arg, max_bin_power)
            IN  (f[1] = f[2] /\ Leq(Big(2), k) /\ Lt(k, Sub(Pow2(max_bin_power), One)))
                    => /\ (\/ s = Sub(k, One) /\ e = Add(k, One)
                           \/ s = Sub(k, One) /\ e = k
                           \/ s = k /\ e = Add(k, One))
                              => f \in Range(last.result)
                       /\ (s = Sub(k, Big(2)) /\ e = Sub(k, One))
                              => f \notin Range(last.result)

\* C13: a slice with an absent start is answered as from 0 and one with an absent
\* stop as up to 2^max_bin_power: the result holds exactly the stored records that
\* overlap that range, and the slice with both absent returns every stored record.
C13_DefaultBounds ==
    (AnsweredQuery /\ last.arg.kind = "slice"
        /\ (last.arg.start = None \/ last.arg.stop = None))
        => LET s == IF last.arg.start = None THEN Zero ELSE last.arg.start
               e == IF last.arg.stop = None THEN Pow2(max_bin_power) ELSE last.arg.stop
           IN  /\ \A i \in DOMAIN Stored :
                      Overlaps(Stored[i], s, e) <=> Stored[i] \in Range(last.result)
               /\ (last.arg.start = None /\ last.arg.stop = None)
                      => Range(Stored) = Range(last.result)

\* the keys the getter has a check for: no slice and no integer, a step other than
\* 1, a negative start, a start past the stop
WrongType(key) == key.kind = "other"

Stepped(key) == key.kind = "slice" /\ key.step # None /\ key.step # One

NegativeStart(key) == key.start # None /\ Lt(key.start, Zero)

Inverted(key) ==
    key.kind = "slice" /\ key.start # None /\ key.stop # None /\ Lt(key.stop, key.start)

Malformed(key) == WrongType(key) \/ Stepped(key) \/ NegativeStart(key) \/ Inverted(key)

\* C14: a query with a key of the wrong type raises TypeError, with a stepped slice
\* KeyError, with a negative start or a start past the stop IndexError; the call
\* returns nothing and leaves every bin (its order too), the sortedness flag and
\* the geometry as they were.
C14_MalformedKeyRejected ==
    [][(last'.op = "query" /\ Malformed(last'.arg))
          => /\ last'.status = IF WrongType(last'.arg) THEN "TypeError"
                                ELSE IF Stepped(last'.arg) THEN "KeyError"
                                ELSE "IndexError"
             /\ last'.result = <<>>
             /\ bins' = bins
             /\ sorted' = sorted
             /\ max_bin_power' = max_bin_power
             /\ resizes' = resizes]_vars

\* a stepped slice turned away while a bin holds its records out of order
C14_Witness ==
    /\ last.op = "query" /\ last.status = "KeyError"
    /\ ~sorted
    /\ \E k \in DOMAIN bins : bins[k] # SortedList(bins[k])

\* a well-formed key whose start is at or past the maximum coordinate 2^p
OutOfRange(key, p) == ~Malformed(key) /\ key.start # None /\ Leq(Pow2(p), key.start)

\* C15: a query whose start is at or past 2^max_bin_power raises IndexError and
\* returns nothing, before any bin is sorted or read: the bins (their order too)
\* and the sortedness flag stay as they were, and no resize runs.
C15_OutOfRangeRejected ==
    [][(last'.op = "query" /\ OutOfRange(last'.arg, max_bin_power))
          => /\ last'.status = "IndexError"
             /\ last'.result = <<>>
             /\ bins' = bins
             /\ sorted' = sorted
             /\ max_bin_power' = max_bin_power
             /\ resizes' = resizes]_vars

\* a length the constructor is documented to accept: absent, or a positive
\* integer up to 2^41
ValidLength(len) ==
    len = None \/ (IsInteger(len) /\ Lt(Zero, len) /\ Leq(len, Pow2(MaxPower)))

\* C16: construction with a length that is no positive integer <= 2^41 fails and
\* leaves no object, and every object a constructor returned has its
\* max_bin_power set, to one of 23, 26, ..., 41.
C16_ConstructionValidated ==
    /\ ~ValidLength(length) => ~Constructed
    /\ Constructed => max_bin_power \in Powers

\* C17: an index whose tuples keep begin and end at other positions than 0 and 1
\* answers every query as the default index does on the same bins: the same
\* outcome and the same records.
C17_CustomPositions ==
    (beginindex # 0 /\ max_bin_power # NoPower /\ last.op = "query")
        => LET default == getitem(last.arg, bins, max_bin_power, FALSE, 0)
           IN  /\ last.status = default.status
               /\ last.result = default.result

\* the two small intervals of the scenario
SmallA == <<Zero, Big(256)>>

SmallB == <<One, Big(257)>>

\* an ok insert of record f is the last call
Inserted(f) == last.op = "insert" /\ last.status = "ok" /\ last.arg = f

\* the key's range holds the whole interval f
Covers(key, f) ==
    Leq(KeyStart(key), f[1]) /\ Leq(f[2], KeyStop(key, max_bin_power))

\* after one resize the small intervals that were inserted are in the result of
\* every answered query that covers them
SmallStillReturned ==
    (AnsweredQuery /\ resizes = 1)
        => \A f \in {SmallA, SmallB} :
               (f \in Range(inserted) /\ Covers(last.arg, f)) => f \in Range(last.result)

\* the insert of record f into an index that holds the two small intervals at
\* power 23 is the step taken
ThirdInsert(f) ==
    /\ inserted = <<SmallA, SmallB>>
    /\ max_bin_power = MinPower
    /\ last'.op = "insert" /\ last'.arg = f /\ inserted' # inserted

\* C18: in a fresh dynamic index insert (0, 256) lands in bin 4681 and insert
\* (1, 257) in bin 585; then insert (1, 8388608) runs exactly one resize, to power
\* 26, after which queries covering the small intervals return them.
C18_Scenario ==
    /\ []((Inserted(SmallA) /\ resizes = 0) => last.bin = Offset(5))
    /\ []((Inserted(SmallB) /\ resizes = 0) => last.bin = Offset(4))
    /\ [][ThirdInsert(<<One, Pow2(23)>>)
            => max_bin_power' = MinPower + 3 /\ resizes' = resizes + 1]_vars
    /\ []SmallStillReturned

\* C18, with the third insert told apart by where the record ends: (1, 8388608)
\* ends at the maximum 2^23, fits, and lands in bin 0 with no resize;
\* (1, 8388609) ends past it and runs exactly one resize, to power 26, landing in
\* bin 0; after that resize queries covering the small intervals return them.
C18_ScenarioAmended ==
    /\ []((Inserted(SmallA) /\ resizes = 0) => last.bin = Offset(5))
    /\ []((Inserted(SmallB) /\ resizes = 0) => last.bin = Offset(4))
    /\ [][ThirdInsert(<<One, Pow2(23)>>)
            => /\ max_bin_power' = MinPower /\ resizes' = resizes
               /\ last'.bin = 0]_vars
    /\ [][ThirdInsert(<<One, Add(Pow2(23), One)>>)
            => /\ max_bin_power' = MinPower + 3 /\ resizes' = resizes + 1
               /\ last'.bin = 0]_vars
    /\ []SmallStillReturned

\* the three inserts done, one resize run, and both small intervals returned
C18_Witness ==
    /\ inserted = <<SmallA, SmallB, <<One, Add(Pow2(23), One)>>>>
    /\ resizes = 1 /\ max_bin_power = MinPower + 3
    /\ AnsweredQuery /\ last.arg = Slice(Zero, Big(1000), None)
    /\ {SmallA, SmallB} \subseteq Range(last.result)

\* the second loop of the resizer (lines 272-281) from bins b over the steps ks,
\* highest first: every step assigns to a slot that holds no record
RECURSIVE MoveDownClean(_, _)
MoveDownClean(b, ks) ==
    IF ks = {} THEN TRUE
    ELSE LET k == MaxOf(ks)
             moved == SetBin(b, NewIndex(k), BinAt(b, k))
         IN  /\ BinAt(b, NewIndex(k)) = <<>>
             /\ MoveDownClean(SetBin(moved, k, <<>>), ks \ {k})

\* n resizes in a row from bins b at power p: in each the second loop finds every
\* destination empty, and bin 0 is empty when the resize is done
RECURSIVE ResizesClean(_, _, _)
ResizesClean(b, p, n) ==
    \/ n = 0
    \/ LET merged == MergeLowestLevel(b, {k \in DOMAIN b : k >= Offset(5)}, p)
            after == increase_bin_sizes(b, p)
        IN  /\ MoveDownClean(merged, ShiftSteps(merged))
            /\ BinAt(after, 0) = <<>>
            /\ ResizesClean(after, p + 3, n - 1)

\* for every identifier the second loop visits, the level it computes is the
\* level whose block holds the identifier
LevelsTrue ==
    \A k \in 0..(Offset(5) - 1) :
        Offset(LevelOf(k)) <= k /\ k < Offset(LevelOf(k) + 1)

\* the destinations of the second loop are distinct and lie above their sources,
\* so a slot is assigned once, after the step that read it
DestinationsApart ==
    /\ \A k \in 0..(Offset(5) - 1) : NewIndex(k) > k /\ NewIndex(k) < BinCount
    /\ Cardinality({NewIndex(k) : k \in 0..(Offset(5) - 1)}) = Offset(5)

\* C19: in the second loop of every resize the computed level of each identifier
\* is its true level, each destination slot is empty when it is assigned, and
\* bin 0 is empty when the resize is done.
C19_ResizeNoClobber ==
    /\ [](LevelsTrue /\ DestinationsApart)
    /\ [][resizes' > resizes
            => ResizesClean(bins, max_bin_power, resizes' - resizes)]_vars

\* one resize moved the record of bin 0 to bin 1 and brought a finest-level
\* record back to the finest level
C19_Witness ==
    /\ resizes = 1
    /\ DOMAIN bins = {1, Offset(5)}
    /\ last.op = "bin_for"

\* the smallest of the powers q, q + 3, ..., 41 whose maximum 2^power holds end
RECURSIVE SmallestPower(_, _)
SmallestPower(end, q) ==
    IF q >= MaxPower \/ Leq(end, Pow2(q)) THEN q ELSE SmallestPower(end, q + 3)

\* C20: in dynamic mode a call of insert or of the bin-index calculator that
\* returns a bin leaves max_bin_power at the smallest of the powers from the
\* current one up with begin + max(span, 1) <= 2^power, running one resize per
\* step of 3: none when the interval fits; and the interval that fills the
\* current maximum (begin 0, span 2^max_bin_power) gets bin 0 with no resize.
C20_MinimalGrowth ==
    [][(dynamic_size /\ last'.op \in {"insert", "bin_for"} /\ last'.status = "ok")
          => LET begin == last'.arg[1]
                 span == IF last'.op = "insert"
                         THEN Sub(last'.arg[2], last'.arg[1])
                         ELSE last'.arg[2]
                 end == Add(begin, Max(One, span))
                 fits == Leq(end, Pow2(max_bin_power))
             IN  /\ max_bin_power' = SmallestPower(end, max_bin_power)
                 /\ resizes' - resizes = (max_bin_power' - max_bin_power) \div 3
                 /\ (resizes' > resizes) <=> ~fits
                 /\ (begin = Zero /\ span = Pow2(max_bin_power))
                        => last'.bin = 0 /\ resizes' = resizes]_vars

\* an interval one position longer than 2^26, put into an index at power 23: two
\* resizes, to power 29
C20_Witness ==
    /\ last.op = "insert" /\ last.status = "ok"
    /\ last.arg = <<Zero, Add(Pow2(26), One)>>
    /\ resizes = 2 /\ max_bin_power = MinPower + 6
    /\ Len(inserted) = 1

\* every bin is in the order sort() leaves it in
BinsInOrder == \A k \in DOMAIN bins : bins[k] = SortedList(bins[k])

\* C21: a query that runs while no insert is inside the resizer, on bins that are
\* in order as they are after every query of a run without interleaving, misses
\* no stored record that overlaps its range.
C21_SerializedQueryComplete ==
    (Quiet /\ AnsweredQuery /\ BinsInOrder)
        => \A i \in DOMAIN Stored :
               Overlaps(Stored[i], KeyStart(last.arg), KeyStop(last.arg, max_bin_power))
                   => Stored[i] \in Range(last.result)

\* C21, the torn geometry: the new power is set, the bins are still laid out for
\* the old one, and the query [256, 512) does not find the stored record (256, 512)
C21_TornWitness ==
    /\ pending.phase = "raised"
    /\ AnsweredQuery /\ last.arg = Slice(Big(256), Big(512), None)
    /\ <<Big(256), Big(512)>> \in Range(Stored)
    /\ last.result = <<>>

=============================================================================
